---- MODULE Spec2Model ----
(***************************************************************************)
(* Model of core/rsa_handler.py of CCE_Helper: the RSA key codec           *)
(* (validation, PKCS#1 / PKCS#8 / SPKI conversion) and the RSAUtil signing *)
(* engine.  The `cryptography` primitives the module calls are modelled by *)
(* their documented behaviour on symbolic keys, buffers and signatures.    *)
(***************************************************************************)
EXTENDS Integers, Sequences, FiniteSets, TLC

VARIABLES engine, call, prev

vars == <<engine, call, prev>>

(***************************************************************************)
(* Bounds of the model.                                                    *)
(***************************************************************************)
NumKeys == 2
NumMsgs == 2
NumSalts == 2

KeyIds == 1..NumKeys
Msgs == 1..NumMsgs
Salts == 1..NumSalts

(***************************************************************************)
(* Key objects.  An RSA key is identified by its modulus n and public      *)
(* exponent e; a private key also carries d.  Non-RSA keys (EC) and keys   *)
(* of an algorithm the library does not support (GOST) share the shape.    *)
(***************************************************************************)
public_exponent == 65537

\* the keys of the model alternate between the default exponent and 3
ExpOf(k) == IF k % 2 = 1 THEN public_exponent ELSE 3

NoneKey == [alg |-> "None", role |-> "none", n |-> 0, e |-> 0, d |-> 0]

PrivKey(alg, k) ==
    [alg |-> alg, role |-> "private", n |-> k, e |-> ExpOf(k), d |-> k]

\* private_key.public_key(): the public half derived from a private key
public_key_of(priv) ==
    [alg |-> priv.alg, role |-> "public", n |-> priv.n, e |-> priv.e, d |-> 0]

RSAPrivKeys == {PrivKey("RSA", k) : k \in KeyIds}
OtherPrivKeys == {PrivKey("EC", 1), PrivKey("GOST", 1)}
PrivKeys == RSAPrivKeys \cup OtherPrivKeys

\* isinstance(key, rsa.RSAPrivateKey) / isinstance(key, rsa.RSAPublicKey)
IsRSAPrivateKey(key) == key.alg = "RSA" /\ key.role = "private"
IsRSAPublicKey(key) == key.alg = "RSA" /\ key.role = "public"

(***************************************************************************)
(* Buffers.  type is the Python type of the value (bytes or str);          *)
(* container is PEM, DER or TEXT (anything that is neither); label is the  *)
(* PEM label (for TEXT: the label that follows a BEGIN in the text, if     *)
(* any); syntax is the ASN.1 structure; pw is the password the private key *)
(* is encrypted under ("" when it is not encrypted).                       *)
(***************************************************************************)
NoData ==
    [type |-> "none", container |-> "none", label |-> "", syntax |-> "none",
     alg |-> "None", n |-> 0, e |-> 0, d |-> 0, pw |-> ""]

Passwords == {"pw1", "pw2"}
NoPassword == ""

\* ASN.1 structures: RSAPrivateKey and RSAPublicKey are PKCS#1, PrivateKeyInfo
\* is PKCS#8, SubjectPublicKeyInfo is SPKI, ECPrivateKey is SEC1
PrivSyntaxes == {"RSAPrivateKey", "PrivateKeyInfo", "ECPrivateKey"}
PubSyntaxes == {"RSAPublicKey", "SubjectPublicKeyInfo"}

PrivLabel(syntax, pw) ==
    IF syntax = "PrivateKeyInfo"
    THEN (IF pw = "" THEN "PRIVATE KEY" ELSE "ENCRYPTED PRIVATE KEY")
    ELSE (IF syntax = "RSAPrivateKey" THEN "RSA PRIVATE KEY" ELSE "EC PRIVATE KEY")

PubLabel(syntax) ==
    IF syntax = "RSAPublicKey" THEN "RSA PUBLIC KEY" ELSE "PUBLIC KEY"

\* the bytes private_bytes / public_bytes write for a key
EncodePriv(key, container, syntax, pw) ==
    [type |-> "bytes", container |-> container,
     label |-> IF container = "PEM" THEN PrivLabel(syntax, pw) ELSE "",
     syntax |-> syntax, alg |-> key.alg, n |-> key.n, e |-> key.e, d |-> key.d,
     pw |-> pw]

EncodePub(key, container, syntax) ==
    [type |-> "bytes", container |-> container,
     label |-> IF container = "PEM" THEN PubLabel(syntax) ELSE "",
     syntax |-> syntax, alg |-> key.alg, n |-> key.n, e |-> key.e, d |-> 0,
     pw |-> ""]

Text(label) ==
    [type |-> "bytes", container |-> "TEXT", label |-> label, syntax |-> "none",
     alg |-> "None", n |-> 0, e |-> 0, d |-> 0, pw |-> ""]

\* bytes.decode("utf-8") and str.encode()
Decode(data) == [data EXCEPT !.type = "str"]
StrEncode(data) == [data EXCEPT !.type = "bytes"]

(***************************************************************************)
(* Outcomes of a call: a return value or a raised exception.  exc is the   *)
(* Python exception class; by tells who raised it: a raise statement of    *)
(* rsa_handler.py ("code", with its message id in msg), the cryptography   *)
(* library, or the interpreter (an operation applied to a value of the     *)
(* wrong type).                                                            *)
(***************************************************************************)
\* A signature value: the key, message, padding and hash it was made with,
\* the random salt of a PSS signature, and whether its bits are intact.
NoSig ==
    [n |-> 0, e |-> 0, msg |-> 0, pad |-> "none", mgf |-> "none",
     salt_length |-> "none", salt |-> 0, hash |-> "none", intact |-> FALSE]

NoOut ==
    [kind |-> "none", exc |-> "", by |-> "", msg |-> "", rtype |-> "none",
     bool |-> FALSE, data |-> NoData, sig |-> NoSig, key |-> NoneKey]

Raise(exc, by, msg) ==
    [NoOut EXCEPT !.kind = "raise", !.exc = exc, !.by = by, !.msg = msg]

ReturnBool(b) == [NoOut EXCEPT !.kind = "return", !.rtype = "bool", !.bool = b]
ReturnData(d) == [NoOut EXCEPT !.kind = "return", !.rtype = d.type, !.data = d]
ReturnSig(s) == [NoOut EXCEPT !.kind = "return", !.rtype = "bytes", !.sig = s]
ReturnKey(k) == [NoOut EXCEPT !.kind = "return", !.rtype = "key", !.key = k]
ReturnEngine == [NoOut EXCEPT !.kind = "return", !.rtype = "RSAUtil"]

\* except ValueError: / except Exception: / except InvalidSignature:
IsValueError(o) == o.kind = "raise" /\ o.exc = "ValueError"
IsException(o) == o.kind = "raise"
IsInvalidSignature(o) == o.kind = "raise" /\ o.exc = "InvalidSignature"

(***************************************************************************)
(* The cryptography.hazmat.primitives.serialization loaders.               *)
(***************************************************************************)
SupportedAlgs == {"RSA", "EC"}
PrivateLabels ==
    {"PRIVATE KEY", "ENCRYPTED PRIVATE KEY", "RSA PRIVATE KEY", "EC PRIVATE KEY"}
PublicLabels == {"PUBLIC KEY", "RSA PUBLIC KEY"}

KeyOfPriv(data) ==
    [alg |-> data.alg, role |-> "private", n |-> data.n, e |-> data.e, d |-> data.d]
KeyOfPub(data) ==
    [alg |-> data.alg, role |-> "public", n |-> data.n, e |-> data.e, d |-> 0]

\* what both private loaders do once the container is opened
LoadPrivBody(data, password) ==
    IF data.syntax \notin PrivSyntaxes
      THEN Raise("ValueError", "library", "could not deserialize")
    ELSE IF data.pw # "" /\ password = NoPassword
      THEN Raise("TypeError", "library", "password was not given")
    ELSE IF data.pw = "" /\ password # NoPassword
      THEN Raise("TypeError", "library", "password given, key not encrypted")
    ELSE IF data.pw # password
      THEN Raise("ValueError", "library", "bad decrypt")
    ELSE IF data.alg \notin SupportedAlgs
      THEN Raise("UnsupportedAlgorithm", "library", "unsupported key type")
    ELSE ReturnKey(KeyOfPriv(data))

load_pem_private_key(data, password) ==
    IF data.type # "bytes"
      THEN Raise("TypeError", "library", "not bytes-like")
    ELSE IF data.container # "PEM" \/ data.label \notin PrivateLabels
      THEN Raise("ValueError", "library", "could not deserialize")
    ELSE LoadPrivBody(data, password)

load_der_private_key(data, password) ==
    IF data.type # "bytes"
      THEN Raise("TypeError", "library", "not bytes-like")
    ELSE IF data.container # "DER"
      THEN Raise("ValueError", "library", "could not deserialize")
    ELSE LoadPrivBody(data, password)

LoadPubBody(data) ==
    IF data.syntax \notin PubSyntaxes
      THEN Raise("ValueError", "library", "could not deserialize")
    ELSE IF data.alg \notin SupportedAlgs
      THEN Raise("UnsupportedAlgorithm", "library", "unsupported key type")
    ELSE ReturnKey(KeyOfPub(data))

load_pem_public_key(data) ==
    IF data.type # "bytes"
      THEN Raise("TypeError", "library", "not bytes-like")
    ELSE IF data.container # "PEM" \/ data.label \notin PublicLabels
      THEN Raise("ValueError", "library", "could not deserialize")
    ELSE LoadPubBody(data)

load_der_public_key(data) ==
    IF data.type # "bytes"
      THEN Raise("TypeError", "library", "not bytes-like")
    ELSE IF data.container # "DER"
      THEN Raise("ValueError", "library", "could not deserialize")
    ELSE LoadPubBody(data)

\* PrivateFormat.TraditionalOpenSSL is PKCS#1 for RSA and SEC1 for EC
Traditional(key) == IF key.alg = "RSA" THEN "RSAPrivateKey" ELSE "ECPrivateKey"

\* key.private_bytes(encoding, format, encryption_algorithm)
private_bytes(key, encoding, format, pw) ==
    IF format = "TraditionalOpenSSL" /\ encoding = "DER" /\ pw # ""
      THEN Raise("ValueError", "library", "encryption not supported for DER")
    ELSE ReturnData(EncodePriv(key, encoding,
             IF format = "PKCS8" THEN "PrivateKeyInfo" ELSE Traditional(key), pw))

\* key.public_bytes(encoding, format)
public_bytes(key, encoding, format) ==
    IF format = "PKCS1" /\ key.alg # "RSA"
      THEN Raise("ValueError", "library", "PKCS1 needs an RSA key")
    ELSE ReturnData(EncodePub(key, encoding,
             IF format = "PKCS1" THEN "RSAPublicKey" ELSE "SubjectPublicKeyInfo"))

(***************************************************************************)
(* rsa_handler.py: the key codec.                                          *)
(***************************************************************************)
\* if isinstance(data, str): data = data.encode()
Normalize(data) == IF data.type = "str" THEN StrEncode(data) ELSE data

is_valid_rsa_private_key(data0) ==
    LET data == Normalize(data0)
        pem == load_pem_private_key(data, NoPassword)
        der == load_der_private_key(data, NoPassword)
    IN  IF pem.kind = "return" THEN ReturnBool(IsRSAPrivateKey(pem.key))
        ELSE IF ~IsValueError(pem) THEN pem
        ELSE IF IsException(der) THEN ReturnBool(FALSE)
        ELSE ReturnBool(IsRSAPrivateKey(der.key))

is_valid_rsa_public_key(data0) ==
    LET data == Normalize(data0)
        pem == load_pem_public_key(data)
        der == load_der_public_key(data)
    IN  IF pem.kind = "return" THEN ReturnBool(IsRSAPublicKey(pem.key))
        ELSE IF ~IsValueError(pem) THEN pem
        ELSE IF IsException(der) THEN ReturnBool(FALSE)
        ELSE ReturnBool(IsRSAPublicKey(der.key))

\* pkcs1_to_pkcs8 writing Encoding.DER instead of Encoding.PEM
pkcs1_to_pkcs8_der(pkcs1_pem) ==
    LET private_key == load_pem_private_key(pkcs1_pem, NoPassword)
    IN  IF private_key.kind = "raise" THEN private_key
        ELSE private_bytes(private_key.key, "DER", "PKCS8", "")

pkcs1_to_pkcs8(pkcs1_pem) ==
    LET private_key == load_pem_private_key(pkcs1_pem, NoPassword)
    IN  IF private_key.kind = "raise" THEN private_key
        ELSE private_bytes(private_key.key, "PEM", "PKCS8", "")

pkcs8_to_pkcs1(pkcs8_pem) ==
    LET private_key == load_pem_private_key(pkcs8_pem, NoPassword)
    IN  IF private_key.kind = "raise" THEN private_key
        ELSE private_bytes(private_key.key, "PEM", "TraditionalOpenSSL", "")

pkcs1_pub_to_spki(pkcs1_pem) ==
    LET public_key == load_pem_public_key(pkcs1_pem)
    IN  IF public_key.kind = "raise" THEN public_key
        ELSE public_bytes(public_key.key, "PEM", "SubjectPublicKeyInfo")

\* spki_to_pkcs1_pub without the isinstance check of the loaded key
spki_to_pkcs1_pub_unchecked(spki_pem) ==
    LET public_key == load_pem_public_key(spki_pem)
    IN  IF public_key.kind = "raise" THEN public_key
        ELSE public_bytes(public_key.key, "PEM", "PKCS1")

spki_to_pkcs1_pub(spki_pem) ==
    LET public_key == load_pem_public_key(spki_pem)
    IN  IF public_key.kind = "raise" THEN public_key
        ELSE IF ~IsRSAPublicKey(public_key.key)
          THEN Raise("TypeError", "code", "only RSA public keys are supported")
        ELSE public_bytes(public_key.key, "PEM", "PKCS1")

\* b"BEGIN <label>" in pem_data, for bytes: a PEM buffer holds the marker of
\* its own label only (no marker is a substring of another label's header),
\* other text whatever it spells
HasMarker(label, pem_data) ==
    pem_data.container \in {"PEM", "TEXT"} /\ pem_data.label = label

\* .decode("utf-8") of a conversion's result
DecodeResult(o) == IF o.kind = "return" THEN ReturnData(Decode(o.data)) ELSE o

convert_private_key_auto(pem_data) ==
    IF pem_data.type # "bytes"
      THEN Raise("TypeError", "interpreter", "in requires a bytes-like object")
    ELSE IF HasMarker("RSA PRIVATE KEY", pem_data)
      THEN DecodeResult(pkcs1_to_pkcs8(pem_data))
    ELSE IF HasMarker("PRIVATE KEY", pem_data)
      THEN DecodeResult(pkcs8_to_pkcs1(pem_data))
    ELSE Raise("ValueError", "code", "unrecognized private key format")

convert_public_key_auto(pem_data) ==
    IF pem_data.type # "bytes"
      THEN Raise("TypeError", "interpreter", "in requires a bytes-like object")
    ELSE IF HasMarker("RSA PUBLIC KEY", pem_data)
      THEN pkcs1_pub_to_spki(pem_data)
    ELSE IF HasMarker("PUBLIC KEY", pem_data)
      THEN spki_to_pkcs1_pub(pem_data)
    ELSE Raise("ValueError", "code", "unrecognized public key format")

(***************************************************************************)
(* rsa_handler.py: the RSAUtil signing engine.                             *)
(***************************************************************************)
NoEngine == [live |-> FALSE, private_key |-> NoneKey, public_key |-> NoneKey]

Engine(priv, pub) == [live |-> TRUE, private_key |-> priv, public_key |-> pub]

\* rsa.generate_private_key(public_exponent, key_size): some fresh key pair
\* with that exponent
GeneratedKeys(pe) == {k \in RSAPrivKeys : k.e = pe}

\* __init__ keeping a public key that is supplied next to the private key
RSAUtil_init_keeps_public(private_key, public_key, generated) ==
    IF private_key # NoneKey
      THEN Engine(private_key,
                  IF public_key # NoneKey THEN public_key
                  ELSE public_key_of(private_key))
    ELSE IF public_key # NoneKey
      THEN Engine(NoneKey, public_key)
    ELSE Engine(generated, public_key_of(generated))

\* RSAUtil.__init__: generated is the key pair generation yields when no key
\* is supplied
RSAUtil_init(private_key, public_key, generated) ==
    IF private_key # NoneKey
      THEN Engine(private_key, public_key_of(private_key))
    ELSE IF public_key # NoneKey
      THEN Engine(NoneKey, public_key)
    ELSE Engine(generated, public_key_of(generated))

\* RSAUtil.from_pem: the outcome and the engine built (NoEngine when it raises)
from_pem(pem_bytes, password) ==
    LET private_key == load_pem_private_key(pem_bytes, password)
        public_key == load_pem_public_key(pem_bytes)
    IN  IF private_key.kind = "return"
          THEN [out |-> ReturnEngine,
                eng |-> RSAUtil_init(private_key.key, NoneKey, NoneKey)]
        ELSE IF ~IsValueError(private_key)
          THEN [out |-> private_key, eng |-> NoEngine]
        ELSE IF IsException(public_key)
          THEN [out |-> Raise("ValueError", "code", "neither private nor public key"),
                eng |-> NoEngine]
        ELSE [out |-> ReturnEngine,
              eng |-> RSAUtil_init(NoneKey, public_key.key, NoneKey)]

\* str.upper() on the names callers pass
Upper(name) ==
    CASE name = "pem" -> "PEM"
      [] name = "der" -> "DER"
      [] name = "pkcs1" -> "PKCS1"
      [] name = "pkcs8" -> "PKCS8"
      [] name = "pss" -> "PSS"
      [] name = "PKCS1v15" -> "PKCS1V15"
      [] name = "pkcs1v15" -> "PKCS1V15"
      [] name = "sha256" -> "SHA256"
      [] name = "sha512" -> "SHA512"
      [] name = "md6" -> "MD6"
      [] OTHER -> name

\* the hash classes of cryptography.hazmat.primitives.hashes
HashClasses == {"SHA1", "SHA256", "SHA384", "SHA512"}

\* a missing attribute: a method of None, or an unknown name in hashes
AttributeError(attr) == Raise("AttributeError", "interpreter", attr)

RSAUtil_export_private_key(self, encoding, format, password) ==
    LET enc == IF Upper(encoding) = "PEM" THEN "PEM" ELSE "DER"
        fmt == IF Upper(format) = "PKCS1" THEN "TraditionalOpenSSL" ELSE "PKCS8"
    IN  IF self.private_key = NoneKey THEN AttributeError("private_bytes")
        ELSE private_bytes(self.private_key, enc, fmt, password)

RSAUtil_export_public_key(self, encoding) ==
    LET enc == IF Upper(encoding) = "PEM" THEN "PEM" ELSE "DER"
    IN  public_bytes(self.public_key, enc, "SubjectPublicKeyInfo")

\* the padding object sign and verify build from the names
PSS(hash_algo) == [name |-> "PSS", mgf |-> hash_algo, salt_length |-> "MAX_LENGTH"]
PKCS1v15 == [name |-> "PKCS1v15", mgf |-> "none", salt_length |-> "none"]

SignPadding(padding_mode, hash_algo) ==
    IF Upper(padding_mode) = "PSS" THEN PSS(hash_algo) ELSE PKCS1v15

\* verify building MGF1 over SHA256 whatever the hash
VerifyPadding_sha256_mgf(padding_mode, hash_algo) ==
    IF Upper(padding_mode) = "PSS" THEN PSS("SHA256") ELSE PKCS1v15

VerifyPadding(padding_mode, hash_algo) ==
    IF Upper(padding_mode) = "PSS" THEN PSS(hash_algo) ELSE PKCS1v15

\* RSAPrivateKey.sign(message, pad, hash_algo); salt is the random salt PSS draws
MakeSig(key, message, pad, hash_algo, salt) ==
    [n |-> key.n, e |-> key.e, msg |-> message, pad |-> pad.name, mgf |-> pad.mgf,
     salt_length |-> pad.salt_length,
     salt |-> IF pad.name = "PSS" THEN salt ELSE 0,
     hash |-> hash_algo, intact |-> TRUE]

key_sign(key, message, pad, hash_algo, salt) ==
    IF key.alg # "RSA"
      THEN Raise("TypeError", "library", "sign() arguments")
    ELSE ReturnSig(MakeSig(key, message, pad, hash_algo, salt))

\* RSAPublicKey.verify(signature, message, pad, hash_algo)
Authentic(key, signature, message, pad, hash_algo) ==
    /\ signature.intact
    /\ signature.n = key.n /\ signature.e = key.e
    /\ signature.msg = message
    /\ signature.pad = pad.name /\ signature.mgf = pad.mgf
    /\ signature.salt_length = pad.salt_length
    /\ signature.hash = hash_algo

key_verify(key, signature, message, pad, hash_algo) ==
    IF key.alg # "RSA"
      THEN Raise("TypeError", "library", "verify() arguments")
    ELSE IF Authentic(key, signature, message, pad, hash_algo)
      THEN [NoOut EXCEPT !.kind = "return"]
    ELSE Raise("InvalidSignature", "library", "invalid signature")

RSAUtil_sign(self, message, padding_mode, hash_alg, salt) ==
    LET hash_algo == Upper(hash_alg)
    IN  IF hash_algo \notin HashClasses THEN AttributeError(hash_algo)
        ELSE IF Upper(padding_mode) \notin {"PSS", "PKCS1V15"}
          THEN Raise("ValueError", "code", "unsupported padding_mode")
        ELSE IF self.private_key = NoneKey THEN AttributeError("sign")
        ELSE key_sign(self.private_key, message,
                      SignPadding(padding_mode, hash_algo), hash_algo, salt)

\* verify without the except InvalidSignature clause
RSAUtil_verify_uncaught(self, message, signature, padding_mode, hash_alg) ==
    LET hash_algo == Upper(hash_alg)
        res == key_verify(self.public_key, signature, message,
                          VerifyPadding(padding_mode, hash_algo), hash_algo)
    IN  IF hash_algo \notin HashClasses THEN AttributeError(hash_algo)
        ELSE IF Upper(padding_mode) \notin {"PSS", "PKCS1V15"}
          THEN Raise("ValueError", "code", "unsupported padding_mode")
        ELSE IF res.kind = "return" THEN ReturnBool(TRUE)
        ELSE res

RSAUtil_verify(self, message, signature, padding_mode, hash_alg) ==
    LET hash_algo == Upper(hash_alg)
        res == key_verify(self.public_key, signature, message,
                          VerifyPadding(padding_mode, hash_algo), hash_algo)
    IN  IF hash_algo \notin HashClasses THEN AttributeError(hash_algo)
        ELSE IF Upper(padding_mode) \notin {"PSS", "PKCS1V15"}
          THEN Raise("ValueError", "code", "unsupported padding_mode")
        ELSE IF res.kind = "return" THEN ReturnBool(TRUE)
        ELSE IF IsInvalidSignature(res) THEN ReturnBool(FALSE)
        ELSE res

(***************************************************************************)
(* The state machine: a caller that calls the module's operations one at a *)
(* time.  engine is the RSAUtil instance the caller holds, call the last   *)
(* call with its arguments and outcome, prev the call before it when the   *)
(* last call was given that call's result as its input.                    *)
(***************************************************************************)
NoCall ==
    [op |-> "none", data |-> NoData, password |-> "", private_key |-> NoneKey,
     public_key |-> NoneKey, encoding |-> "", format |-> "", message |-> 0,
     signature |-> NoSig, padding_mode |-> "", hash_alg |-> "", out |-> NoOut]

\* buffers a caller may hold.  Every RSA key in its four PEM forms; for the
\* first key also an encrypted PEM and the DER forms; an EC key and a key of
\* an unsupported algorithm; text that is no key; and str forms of some.
FirstKey == PrivKey("RSA", 1)

PrivBuffers ==
    UNION {{EncodePriv(k, "PEM", "RSAPrivateKey", ""),
            EncodePriv(k, "PEM", "PrivateKeyInfo", "")} : k \in RSAPrivKeys}
    \cup {EncodePriv(FirstKey, "PEM", "PrivateKeyInfo", "pw1"),
          EncodePriv(FirstKey, "DER", "PrivateKeyInfo", "")}
    \cup {EncodePriv(k, "PEM", "PrivateKeyInfo", "") : k \in OtherPrivKeys}

PubBuffers ==
    UNION {{EncodePub(public_key_of(k), "PEM", "RSAPublicKey"),
            EncodePub(public_key_of(k), "PEM", "SubjectPublicKeyInfo")} :
              k \in RSAPrivKeys}
    \cup {EncodePub(public_key_of(FirstKey), "DER", "SubjectPublicKeyInfo")}
    \cup {EncodePub(public_key_of(k), "PEM", "SubjectPublicKeyInfo") :
              k \in OtherPrivKeys}

TextBuffers == {Text(""), Text("RSA PRIVATE KEY")}

BytesInputs == PrivBuffers \cup PubBuffers \cup TextBuffers
StrInputs ==
    {Decode(EncodePriv(FirstKey, "PEM", "RSAPrivateKey", "")),
     Decode(EncodePub(public_key_of(FirstKey), "PEM", "SubjectPublicKeyInfo")),
     Decode(Text(""))}
Inputs == BytesInputs \cup StrInputs

PasswordArgs == {NoPassword} \cup Passwords
EncodingArgs == {"PEM", "pem", "DER"}
FormatArgs == {"PKCS1", "pkcs8"}
PaddingArgs == {"PSS", "pkcs1v15", "OAEP"}
HashArgs == {"SHA256", "sha512", "md6"}
Exponents == {public_exponent, 3}

\* signatures a caller may hold: made elsewhere, possibly with a bit flipped
FlipBit(s) == [s EXCEPT !.intact = FALSE]
MadeSigs ==
    {MakeSig(k, 1, pad, "SHA256", 1) :
        k \in RSAPrivKeys, pad \in {PSS("SHA256"), PKCS1v15}}
SigInputs == MadeSigs \cup {NoSig}

Conversions ==
    {"pkcs1_to_pkcs8", "pkcs8_to_pkcs1", "pkcs1_pub_to_spki", "spki_to_pkcs1_pub",
     "convert_private_key_auto", "convert_public_key_auto"}

\* the result of the last call, when it is a converted buffer or a signature:
\* the caller may pass it on to the next call
ChainedData ==
    IF call.op \in Conversions /\ call.out.kind = "return"
    THEN {call.out.data} ELSE {}
ChainedSig ==
    IF call.out.kind = "return" /\ call.out.sig # NoSig
    THEN {call.out.sig} ELSE {}

DataChoices == Inputs \cup ChainedData
SigChoices == SigInputs \cup ChainedSig \cup {FlipBit(s) : s \in ChainedSig}

Init ==
    /\ engine = NoEngine
    /\ call = NoCall
    /\ prev = NoCall

\* a codec call on buffer d with outcome o
CodecCall(name, d, o) ==
    /\ call' = [NoCall EXCEPT !.op = name, !.data = d, !.out = o]
    /\ prev' = IF d \in ChainedData THEN call ELSE NoCall
    /\ UNCHANGED engine

Call_is_valid_rsa_private_key ==
    \E d \in DataChoices :
        CodecCall("is_valid_rsa_private_key", d, is_valid_rsa_private_key(d))

Call_is_valid_rsa_public_key ==
    \E d \in DataChoices :
        CodecCall("is_valid_rsa_public_key", d, is_valid_rsa_public_key(d))

Call_pkcs1_to_pkcs8 ==
    \E d \in DataChoices : CodecCall("pkcs1_to_pkcs8", d, pkcs1_to_pkcs8(d))

Call_pkcs8_to_pkcs1 ==
    \E d \in DataChoices : CodecCall("pkcs8_to_pkcs1", d, pkcs8_to_pkcs1(d))

Call_pkcs1_pub_to_spki ==
    \E d \in DataChoices : CodecCall("pkcs1_pub_to_spki", d, pkcs1_pub_to_spki(d))

Call_spki_to_pkcs1_pub ==
    \E d \in DataChoices : CodecCall("spki_to_pkcs1_pub", d, spki_to_pkcs1_pub(d))

Call_convert_private_key_auto ==
    \E d \in DataChoices :
        CodecCall("convert_private_key_auto", d, convert_private_key_auto(d))

Call_convert_public_key_auto ==
    \E d \in DataChoices :
        CodecCall("convert_public_key_auto", d, convert_public_key_auto(d))

Call_RSAUtil ==
    \E priv \in {NoneKey} \cup RSAPrivKeys,
       pub \in {NoneKey} \cup {public_key_of(p) : p \in RSAPrivKeys},
       pe \in Exponents :
      \E g \in GeneratedKeys(pe) :
        /\ engine' = RSAUtil_init(priv, pub, g)
        /\ call' = [NoCall EXCEPT !.op = "RSAUtil", !.private_key = priv,
                                  !.public_key = pub, !.out = ReturnEngine]
        /\ prev' = NoCall

Call_from_pem ==
    \E d \in DataChoices, pw \in PasswordArgs :
      LET r == from_pem(d, pw)
      IN  /\ engine' = IF r.out.kind = "return" THEN r.eng ELSE engine
          /\ call' = [NoCall EXCEPT !.op = "from_pem", !.data = d,
                                    !.password = pw, !.out = r.out]
          /\ prev' = IF d \in ChainedData THEN call ELSE NoCall

Call_export_private_key ==
    \E enc \in EncodingArgs, fmt \in FormatArgs, pw \in {NoPassword, "pw1"} :
        /\ engine.live
        /\ call' = [NoCall EXCEPT
                      !.op = "export_private_key", !.encoding = enc,
                      !.format = fmt, !.password = pw,
                      !.out = RSAUtil_export_private_key(engine, enc, fmt, pw)]
        /\ prev' = NoCall
        /\ UNCHANGED engine

Call_export_public_key ==
    \E enc \in EncodingArgs :
        /\ engine.live
        /\ call' = [NoCall EXCEPT
                      !.op = "export_public_key", !.encoding = enc,
                      !.out = RSAUtil_export_public_key(engine, enc)]
        /\ prev' = NoCall
        /\ UNCHANGED engine

Call_sign ==
    \E m \in Msgs, pad \in PaddingArgs, h \in HashArgs, salt \in Salts :
        /\ engine.live
        /\ call' = [NoCall EXCEPT
                      !.op = "sign", !.message = m, !.padding_mode = pad,
                      !.hash_alg = h,
                      !.out = RSAUtil_sign(engine, m, pad, h, salt)]
        /\ prev' = NoCall
        /\ UNCHANGED engine

Call_verify ==
    \E m \in Msgs, s \in SigChoices, pad \in PaddingArgs, h \in HashArgs :
        /\ engine.live
        /\ call' = [NoCall EXCEPT
                      !.op = "verify", !.message = m, !.signature = s,
                      !.padding_mode = pad, !.hash_alg = h,
                      !.out = RSAUtil_verify(engine, m, s, pad, h)]
        /\ prev' = IF s \in ChainedSig \/ s \in {FlipBit(c) : c \in ChainedSig}
                   THEN call ELSE NoCall
        /\ UNCHANGED engine

\* the codec's functions: stateless, no engine involved
NextCodec ==
    \/ Call_is_valid_rsa_private_key
    \/ Call_is_valid_rsa_public_key
    \/ Call_pkcs1_to_pkcs8
    \/ Call_pkcs8_to_pkcs1
    \/ Call_pkcs1_pub_to_spki
    \/ Call_spki_to_pkcs1_pub
    \/ Call_convert_private_key_auto
    \/ Call_convert_public_key_auto

\* the construction and the methods of RSAUtil
NextEngine ==
    \/ Call_RSAUtil
    \/ Call_from_pem
    \/ Call_export_private_key
    \/ Call_export_public_key
    \/ Call_sign
    \/ Call_verify

Next == NextCodec \/ NextEngine

Spec == Init /\ [][Next]_vars
CodecSpec == Init /\ [][NextCodec]_vars
EngineSpec == Init /\ [][NextEngine]_vars

(***************************************************************************)
(* The error kinds of the design, as the exceptions the code raises.       *)
(***************************************************************************)
UnrecognizedFormat(o) ==
    /\ o.kind = "raise" /\ o.exc = "ValueError" /\ o.by = "code"
    /\ o.msg \in {"unrecognized private key format", "unrecognized public key format"}

UnsupportedKeyType(o) ==
    /\ o.kind = "raise" /\ o.exc = "TypeError" /\ o.by = "code"
    /\ o.msg = "only RSA public keys are supported"

InvalidKey(o) ==
    /\ o.kind = "raise" /\ o.exc = "ValueError" /\ o.by = "code"
    /\ o.msg = "neither private nor public key"

(***************************************************************************)
(* Properties.                                                             *)
(***************************************************************************)
Validators == {"is_valid_rsa_private_key", "is_valid_rsa_public_key"}
AutoConverts == {"convert_private_key_auto", "convert_public_key_auto"}
Markers == {"RSA PRIVATE KEY", "PRIVATE KEY", "RSA PUBLIC KEY", "PUBLIC KEY"}

\* C1: Validate never throws: whatever the input and the role, the validators
\* return a boolean and no error reaches the caller.
C1_ValidateNeverThrows ==
    call.op \in Validators =>
        call.out.kind = "return" /\ call.out.rtype = "bool"

\* an unencrypted PEM buffer of an RSA key with the given label
IsRSAPem(d, label) ==
    /\ d.type = "bytes" /\ d.container = "PEM" /\ d.label = label
    /\ d.alg = "RSA" /\ d.pw = ""

\* o returns an unencrypted PEM byte buffer of the given structure
IsPemBytes(o, syntax) ==
    /\ o.kind = "return" /\ o.rtype = "bytes"
    /\ o.data.container = "PEM" /\ o.data.syntax = syntax /\ o.data.pw = ""

\* C2: the auto-detecting Convert returns the opposite structural format,
\* unencrypted, in PEM, as a byte buffer: PKCS#1 private gives PKCS#8 and
\* PKCS#8 gives PKCS#1; PKCS#1 public gives SPKI and SPKI gives PKCS#1.
C2_AutoConvertOpposite ==
    /\ (call.op = "convert_private_key_auto" /\ IsRSAPem(call.data, "RSA PRIVATE KEY"))
          => IsPemBytes(call.out, "PrivateKeyInfo")
    /\ (call.op = "convert_private_key_auto" /\ IsRSAPem(call.data, "PRIVATE KEY"))
          => IsPemBytes(call.out, "RSAPrivateKey")
    /\ (call.op = "convert_public_key_auto" /\ IsRSAPem(call.data, "RSA PUBLIC KEY"))
          => IsPemBytes(call.out, "SubjectPublicKeyInfo")
    /\ (call.op = "convert_public_key_auto" /\ IsRSAPem(call.data, "PUBLIC KEY"))
          => IsPemBytes(call.out, "RSAPublicKey")

\* C3: on every input, textual or binary, that holds no recognized header
\* marker, the auto-detecting Convert fails with UnrecognizedFormat.
C3_NoMarkerUnrecognized ==
    (call.op \in AutoConverts /\ \A m \in Markers : ~HasMarker(m, call.data))
        => UnrecognizedFormat(call.out)

\* an SPKI PEM byte buffer that decodes to a key that is not RSA
IsNonRSASpki(d) ==
    /\ d.type = "bytes" /\ d.container = "PEM" /\ d.label = "PUBLIC KEY"
    /\ d.syntax = "SubjectPublicKeyInfo"
    /\ d.alg \in SupportedAlgs \ {"RSA"}

\* C4: Convert on an SPKI public key whose decoded algorithm is not RSA fails
\* with UnsupportedKeyType and yields no buffer, through spki_to_pkcs1_pub
\* and through convert_public_key_auto.
C4_NonRSASpkiRejected ==
    (call.op \in {"spki_to_pkcs1_pub", "convert_public_key_auto"}
        /\ IsNonRSASpki(call.data))
        => UnsupportedKeyType(call.out) /\ call.out.data = NoData

C4_Witness ==
    /\ call.op = "convert_public_key_auto"
    /\ IsNonRSASpki(call.data)
    /\ call.data.alg = "EC"
    /\ call.out.kind = "raise"

\* C5: from_pem tries the private parse and, on any failure of it, the public
\* parse: a buffer that is no private key loads as a public-only engine when
\* it is a valid public key, and fails with InvalidKey otherwise.
C5_FromPemFallsBack ==
    (call.op = "from_pem" /\ call.data.type = "bytes") =>
        LET priv == load_pem_private_key(call.data, call.password)
            pub == load_pem_public_key(call.data)
        IN  IF priv.kind = "return"
              THEN call.out.kind = "return" /\ engine.private_key = priv.key
            ELSE IF pub.kind = "return"
              THEN call.out.kind = "return" /\ engine = Engine(NoneKey, pub.key)
            ELSE InvalidKey(call.out)

SupportedScheme(padding_mode, hash_alg) ==
    /\ Upper(padding_mode) \in {"PSS", "PKCS1V15"}
    /\ Upper(hash_alg) \in HashClasses

\* C6: on a public-only engine, sign (with a supported scheme) and
\* export_private_key fail with the typed NoPrivateKey error: an error the
\* module raises for that condition.
C6_NoPrivateKeyTyped ==
    (/\ engine.live /\ engine.private_key = NoneKey
     /\ \/ call.op = "export_private_key"
        \/ call.op = "sign" /\ SupportedScheme(call.padding_mode, call.hash_alg))
        => call.out.kind = "raise" /\ call.out.by = "code"

\* the padding and hash objects the scheme names stand for
SchemePadding(padding_mode, hash_alg) ==
    IF Upper(padding_mode) = "PSS"
    THEN [name |-> "PSS", mgf |-> Upper(hash_alg), salt_length |-> "MAX_LENGTH"]
    ELSE [name |-> "PKCS1v15", mgf |-> "none", salt_length |-> "none"]

VerifyCase ==
    /\ call.op = "verify"
    /\ engine.public_key.alg = "RSA"
    /\ SupportedScheme(call.padding_mode, call.hash_alg)

NotAuthenticCase ==
    /\ VerifyCase
    /\ ~Authentic(engine.public_key, call.signature, call.message,
                  SchemePadding(call.padding_mode, call.hash_alg),
                  Upper(call.hash_alg))

\* C7: Verify never throws on a bad signature: under every supported scheme a
\* signature that is not authentic (wrong signature, wrong message, wrong key,
\* a flipped bit) yields the same normal result False, never an error.
C7_BadSignatureIsFalse ==
    NotAuthenticCase => call.out = ReturnBool(FALSE)

C7_Witness ==
    /\ NotAuthenticCase
    /\ prev.op = "sign"
    /\ call.signature = FlipBit(prev.out.sig)
    /\ call.message = prev.message
    /\ call.out = ReturnBool(FALSE)

SignThenVerify ==
    /\ call.op = "verify"
    /\ prev.op = "sign" /\ prev.out.kind = "return"
    /\ call.signature = prev.out.sig
    /\ call.message = prev.message
    /\ Upper(call.padding_mode) = Upper(prev.padding_mode)
    /\ Upper(call.hash_alg) = Upper(prev.hash_alg)

\* C8: for every message, RSA key pair and supported scheme, sign returns a
\* signature, and verifying the signature that sign returned, with the same
\* message and scheme on the same engine, is True.
C8_SignVerify ==
    /\ (/\ call.op = "sign" /\ engine.private_key.alg = "RSA"
        /\ SupportedScheme(call.padding_mode, call.hash_alg))
          => call.out.kind = "return" /\ call.out.sig.intact
    /\ SignThenVerify => call.out = ReturnBool(TRUE)

C8_Witness ==
    /\ SignThenVerify
    /\ Upper(call.padding_mode) = "PSS"
    /\ Upper(call.hash_alg) = "SHA512"
    /\ call.out = ReturnBool(TRUE)

\* the round trips: the last call converted back what the call before it had
\* converted from an unencrypted PKCS#1 PEM of an RSA key
PrivRoundTrip ==
    /\ prev.op = "pkcs1_to_pkcs8"
    /\ IsRSAPem(prev.data, "RSA PRIVATE KEY")
    /\ call.op = "pkcs8_to_pkcs1"
    /\ call.data = prev.out.data

PubRoundTrip ==
    /\ prev.op = "pkcs1_pub_to_spki"
    /\ IsRSAPem(prev.data, "RSA PUBLIC KEY")
    /\ call.op = "spki_to_pkcs1_pub"
    /\ call.data = prev.out.data

SameModulusAndExponent(k1, k2) ==
    /\ k1.kind = "return" /\ k2.kind = "return"
    /\ k1.key.n = k2.key.n /\ k1.key.e = k2.key.e

\* C9: PKCS1 -> PKCS8 -> PKCS1 of a private key, and PKCS1 -> SPKI -> PKCS1 of
\* a public key, yield a key that parses to the modulus and exponent of the
\* original.
C9_RoundTrip ==
    /\ PrivRoundTrip =>
          /\ call.out.kind = "return"
          /\ SameModulusAndExponent(
                 load_pem_private_key(call.out.data, NoPassword),
                 load_pem_private_key(prev.data, NoPassword))
    /\ PubRoundTrip =>
          /\ call.out.kind = "return"
          /\ SameModulusAndExponent(
                 load_pem_public_key(call.out.data),
                 load_pem_public_key(prev.data))

C9_Witness ==
    /\ PrivRoundTrip
    /\ call.out.kind = "return"
    /\ call.out.data.n = 2
    /\ call.out.data.syntax = "RSAPrivateKey"

EngineMethods == {"export_private_key", "export_public_key", "sign", "verify"}

\* C10: in every engine that holds a private key, however it was built, the
\* public component is the one derived from the private component, also when
\* a public key was supplied with it; export, sign and verify change neither.
C10_PublicDerivedFromPrivate ==
    [][/\ engine'.private_key # NoneKey
            => engine'.public_key = public_key_of(engine'.private_key)
       /\ call'.op \in EngineMethods => engine' = engine]_vars

C10_Witness ==
    /\ call.op = "RSAUtil"
    /\ call.private_key # NoneKey
    /\ call.public_key # NoneKey
    /\ call.public_key # public_key_of(call.private_key)
    /\ engine.private_key = call.private_key

====
